---- MODULE Spec2Model ----
(***************************************************************************)
(* Model of the object database of rev (internal/object/object.go):        *)
(* Hash, compress/decompress, parseRaw, Write, Read, Exists, resolvePath.  *)
(*                                                                         *)
(* Strings and byte slices are sequences of byte values (0..255); an id is *)
(* the sequence of the ASCII codes of its hexadecimal characters.  The     *)
(* object directory is a function from the names of the shard              *)
(* directories that exist under <gitDir>/objects to their entries, each    *)
(* entry a function from file name to [data, mode].                        *)
(***************************************************************************)
EXTENDS Integers, Sequences, FiniteSets, TLC

(***************************************************************************)
(* Byte values the code names.                                             *)
(***************************************************************************)
NUL == 0
SP == 32
PLUS == 43
MINUS == 45
ZERO == 48
NINE == 57

TypeBlob == <<98, 108, 111, 98>>
TypeTree == <<116, 114, 101, 101>>

(* len(sha) != 40 in Write, len(hash) == 40 in resolvePath *)
HashLen == 40
(* len(hash) < 4 in resolvePath *)
MinPrefix == 4
(* sha[:2], hash[:2]: the shard directory name *)
ShardLen == 2
(* the permission bits os.WriteFile is given *)
ObjPerm == 292
(* sha1.Size: bytes of a digest *)
DigestSize == 20

(***************************************************************************)
(* Slices.                                                                 *)
(***************************************************************************)
Take(s, n) == SubSeq(s, 1, n)
Drop(s, n) == SubSeq(s, n + 1, Len(s))
HasPrefix(s, p) == Len(p) <= Len(s) /\ Take(s, Len(p)) = p

RECURSIVE SumTo(_, _, _)
SumTo(s, k, n) == IF n = 0 THEN 0 ELSE SumTo(s, k, n - 1) + s[n] * (k + 2 * n)

(***************************************************************************)
(* fmt.Sprintf("%d", n) and strconv.ParseInt(s, 10, 64).                   *)
(***************************************************************************)
RECURSIVE FormatUint(_)
FormatUint(n) ==
    IF n < 10 THEN <<ZERO + n>> ELSE Append(FormatUint(n \div 10), ZERO + (n % 10))

FormatInt(n) == IF n < 0 THEN <<MINUS>> \o FormatUint(0 - n) ELSE FormatUint(n)

IsDigit(b) == b >= ZERO /\ b <= NINE

RECURSIVE DigitsValue(_, _)
DigitsValue(s, n) ==
    IF n = 0 THEN 0 ELSE DigitsValue(s, n - 1) * 10 + (s[n] - ZERO)

(* ParseUint of the text after the optional sign *)
ParseUint(s) ==
    IF Len(s) = 0 \/ \E i \in 1..Len(s) : ~IsDigit(s[i])
    THEN [ok |-> FALSE, val |-> 0]
    ELSE [ok |-> TRUE, val |-> DigitsValue(s, Len(s))]

ParseInt(s) ==
    IF Len(s) = 0 THEN [ok |-> FALSE, val |-> 0]
    ELSE IF s[1] = PLUS THEN ParseUint(Drop(s, 1))
    ELSE IF s[1] = MINUS
         THEN LET u == ParseUint(Drop(s, 1))
              IN  [ok |-> u.ok, val |-> 0 - u.val]
    ELSE ParseUint(s)

(***************************************************************************)
(* Hasher.                                                                 *)
(***************************************************************************)
Header(objType, size) == objType \o <<SP>> \o FormatInt(size) \o <<NUL>>

(* hex.EncodeToString: two lowercase hexadecimal characters per byte *)
HexChar(n) == IF n < 10 THEN ZERO + n ELSE 87 + n

EncodeToString(b) ==
    [i \in 1..(2 * Len(b)) |->
        IF i % 2 = 1 THEN HexChar(b[(i + 1) \div 2] \div 16)
                     ELSE HexChar(b[i \div 2] % 16)]

(* sha1: a digest of DigestSize bytes that is a function of the bytes alone. *)
(* The mixing is a stand-in for SHA-1, not SHA-1.                           *)
Sum(data) ==
    [i \in 1..DigestSize |-> (Len(data) * 7 + i * 13 + SumTo(data, i, Len(data))) % 256]

HashBytes(fullObject) == EncodeToString(Sum(fullObject))

(* Hash writing len(content) into the header in place of the caller's size *)
HashLenSize(objType, content, size) ==
    LET fullObject == Header(objType, Len(content)) \o content
    IN  [sha |-> HashBytes(fullObject), fullObject |-> fullObject, err |-> "nil"]

(* content is what io.ReadAll(r) returned; size is the caller's, unchecked *)
Hash(objType, content, size) ==
    LET fullObject == Header(objType, size) \o content
    IN  [sha |-> HashBytes(fullObject), fullObject |-> fullObject, err |-> "nil"]

(* githash.Hash: the header by fmt.Sprintf("%s %d\x00"), the bytes appended *)
(* in a bytes.Buffer, the digest by sha1.New, Write and Sum(nil)            *)
GitHash(objectType, content, size) ==
    LET header == objectType \o <<SP>> \o FormatInt(size) \o <<NUL>>
        fullObject == header \o content
    IN  [sha |-> EncodeToString(Sum(fullObject)), fullObject |-> fullObject,
         err |-> "nil"]

(***************************************************************************)
(* Codec.  compress/zlib is modelled by a zlib container (RFC 1950) whose  *)
(* deflate stream is one stored block (RFC 1951, BTYPE 00): the two header *)
(* bytes, the block header, LEN and NLEN, the bytes, and the big-endian    *)
(* Adler-32 of the bytes.                                                  *)
(***************************************************************************)
ZlibCMF == 120
ZlibFLG == 156
StoredFinal == 1
AdlerMod == 65521

RECURSIVE AdlerA(_, _)
AdlerA(data, n) == IF n = 0 THEN 1 ELSE (AdlerA(data, n - 1) + data[n]) % AdlerMod

RECURSIVE AdlerB(_, _)
AdlerB(data, n) == IF n = 0 THEN 0 ELSE (AdlerB(data, n - 1) + AdlerA(data, n)) % AdlerMod

Adler32(data) ==
    LET a == AdlerA(data, Len(data))
        b == AdlerB(data, Len(data))
    IN  <<b \div 256, b % 256, a \div 256, a % 256>>

(* compress without w.Close(): the stream ends before the Adler-32 trailer *)
compressNoClose(data) ==
    LET n == Len(data)
    IN  <<ZlibCMF, ZlibFLG>>
        \o <<StoredFinal, n % 256, n \div 256, 255 - (n % 256), 255 - (n \div 256)>>
        \o data

compress(data) ==
    LET n == Len(data)
    IN  <<ZlibCMF, ZlibFLG>>
        \o <<StoredFinal, n % 256, n \div 256, 255 - (n % 256), 255 - (n \div 256)>>
        \o data \o Adler32(data)

(* decompress returning what io.ReadAll read when the stream ends early *)
decompressIgnoresEOF(data) ==
    IF Len(data) < 2 THEN [err |-> "unexpected EOF", raw |-> <<>>]
    ELSE IF data[1] # ZlibCMF \/ (data[1] * 256 + data[2]) % 31 # 0
         THEN [err |-> "zlib: invalid header", raw |-> <<>>]
    ELSE IF Len(data) < 7 THEN [err |-> "nil", raw |-> <<>>]
    ELSE IF data[3] # StoredFinal
              \/ data[4] + data[6] # 255 \/ data[5] + data[7] # 255
         THEN [err |-> "flate: corrupt input", raw |-> <<>>]
    ELSE LET n == data[4] + 256 * data[5]
             end == IF Len(data) < 7 + n THEN Len(data) ELSE 7 + n
         IN  IF Len(data) < 7 + n + 4
             THEN [err |-> "nil", raw |-> SubSeq(data, 8, end)]
             ELSE IF SubSeq(data, 8 + n, 11 + n) # Adler32(SubSeq(data, 8, 7 + n))
                  THEN [err |-> "zlib: invalid checksum", raw |-> <<>>]
                  ELSE [err |-> "nil", raw |-> SubSeq(data, 8, 7 + n)]

(* zlib.NewReader fails on a short or invalid header; io.ReadAll(r) fails  *)
(* on a short or invalid block and on a missing or wrong checksum.         *)
decompress(data) ==
    IF Len(data) < 2 THEN [err |-> "unexpected EOF", raw |-> <<>>]
    ELSE IF data[1] # ZlibCMF \/ (data[1] * 256 + data[2]) % 31 # 0
         THEN [err |-> "zlib: invalid header", raw |-> <<>>]
    ELSE IF Len(data) < 7 THEN [err |-> "unexpected EOF", raw |-> <<>>]
    ELSE IF data[3] # StoredFinal
              \/ data[4] + data[6] # 255 \/ data[5] + data[7] # 255
         THEN [err |-> "flate: corrupt input", raw |-> <<>>]
    ELSE LET n == data[4] + 256 * data[5]
         IN  IF Len(data) < 7 + n + 4 THEN [err |-> "unexpected EOF", raw |-> <<>>]
             ELSE LET raw == SubSeq(data, 8, 7 + n)
                  IN  IF SubSeq(data, 8 + n, 11 + n) # Adler32(raw)
                      THEN [err |-> "zlib: invalid checksum", raw |-> <<>>]
                      ELSE [err |-> "nil", raw |-> raw]

(***************************************************************************)
(* Envelope parser.                                                        *)
(***************************************************************************)
(* bytes.IndexByte / strings.Index: the first position of b, 0 when absent *)
IndexByte(s, b) ==
    IF \E i \in 1..Len(s) : s[i] = b
    THEN CHOOSE i \in 1..Len(s) : s[i] = b /\ \A j \in 1..(i - 1) : s[j] # b
    ELSE 0

(* strings.SplitN(header, " ", 2) *)
SplitN2(header) ==
    LET i == IndexByte(header, SP)
    IN  IF i = 0 THEN <<header>> ELSE <<Take(header, i - 1), Drop(header, i)>>

NoObject == [Type |-> <<>>, Size |-> 0, Body |-> <<>>]

(* parseRaw with the body cut at raw[nullIdx:], the NUL included *)
parseRawKeepsNul(raw) ==
    LET nullIdx == IndexByte(raw, NUL)
        parts == SplitN2(Take(raw, nullIdx - 1))
    IN  IF nullIdx = 0 \/ Len(parts) # 2 \/ ~ParseInt(parts[Len(parts)]).ok
        THEN [err |-> "malformed object", obj |-> NoObject]
        ELSE [err |-> "nil",
              obj |-> [Type |-> parts[1], Size |-> ParseInt(parts[2]).val,
                       Body |-> Drop(raw, nullIdx - 1)]]

CountByte(s, b) == Cardinality({i \in 1..Len(s) : s[i] = b})

(* parseRaw with the body cut at the next NUL, as bytes.Split would cut it *)
parseRawSplitsEveryNul(raw) ==
    LET nullIdx == IndexByte(raw, NUL)
        parts == SplitN2(Take(raw, nullIdx - 1))
        rest == Drop(raw, nullIdx)
        next == IndexByte(rest, NUL)
    IN  IF nullIdx = 0
        THEN [err |-> "malformed object: no null byte in header", obj |-> NoObject]
        ELSE IF Len(parts) # 2
        THEN [err |-> "malformed object header", obj |-> NoObject]
        ELSE IF ~ParseInt(parts[2]).ok
        THEN [err |-> "parsing object size", obj |-> NoObject]
        ELSE [err |-> "nil",
              obj |-> [Type |-> parts[1], Size |-> ParseInt(parts[2]).val,
                       Body |-> IF next = 0 THEN rest ELSE Take(rest, next - 1)]]

(* parseRaw with the header split at every space, as strings.Split splits it *)
parseRawFields(raw) ==
    LET nullIdx == IndexByte(raw, NUL)
        header == Take(raw, nullIdx - 1)
        parts == SplitN2(header)
    IN  IF nullIdx = 0
        THEN [err |-> "malformed object: no null byte in header", obj |-> NoObject]
        ELSE IF CountByte(header, SP) # 1
        THEN [err |-> "malformed object header", obj |-> NoObject]
        ELSE IF ~ParseInt(parts[2]).ok
        THEN [err |-> "parsing object size", obj |-> NoObject]
        ELSE [err |-> "nil",
              obj |-> [Type |-> parts[1], Size |-> ParseInt(parts[2]).val,
                       Body |-> Drop(raw, nullIdx)]]

parseRaw(raw) ==
    LET nullIdx == IndexByte(raw, NUL)
    IN  IF nullIdx = 0
        THEN [err |-> "malformed object: no null byte in header", obj |-> NoObject]
        ELSE LET parts == SplitN2(Take(raw, nullIdx - 1))
             IN  IF Len(parts) # 2
                 THEN [err |-> "malformed object header", obj |-> NoObject]
                 ELSE LET size == ParseInt(parts[2])
                      IN  IF ~size.ok
                          THEN [err |-> "parsing object size", obj |-> NoObject]
                          ELSE [err |-> "nil",
                                obj |-> [Type |-> parts[1], Size |-> size.val,
                                         Body |-> Drop(raw, nullIdx)]]

(* parseHeaderFromReader on a reader of raw: ReadString('\x00') fails with  *)
(* io.EOF when raw has no NUL; TrimRight takes the delimiter off             *)
parseHeaderFromReader(raw) ==
    LET nullIdx == IndexByte(raw, NUL)
    IN  IF nullIdx = 0
        THEN [err |-> "reading object header", Type |-> <<>>, Size |-> 0]
        ELSE LET parts == SplitN2(Take(raw, nullIdx - 1))
             IN  IF Len(parts) # 2
                 THEN [err |-> "malformed object header", Type |-> <<>>, Size |-> 0]
                 ELSE LET size == ParseInt(parts[2])
                      IN  IF ~size.ok
                          THEN [err |-> "parsing object size", Type |-> <<>>, Size |-> 0]
                          ELSE [err |-> "nil", Type |-> parts[1], Size |-> size.val]

(***************************************************************************)
(* The file system under <gitDir>/objects.                                 *)
(***************************************************************************)
EmptyDir == [n \in {} |-> [data |-> <<>>, mode |-> 0]]

(* the owner-write bit (0200) of a mode *)
Writable(mode) == (mode \div 128) % 2 = 1

MkdirAll(fs, shard) == IF shard \in DOMAIN fs THEN fs ELSE fs @@ (shard :> EmptyDir)

Stat(fs, shard, name) == shard \in DOMAIN fs /\ name \in DOMAIN fs[shard]

PutFile(fs, shard, name, file) ==
    [fs EXCEPT ![shard] =
        IF name \in DOMAIN @ THEN [@ EXCEPT ![name] = file] ELSE @ @@ (name :> file)]

(* os.OpenFile(name, O_WRONLY|O_CREATE|O_TRUNC, perm): a missing file is   *)
(* created empty with mode perm; an existing one is truncated, keeping its *)
(* mode, unless the caller may not write it (no write bit and no           *)
(* privilege), which is EACCES.                                            *)
OpenFile(fs, shard, name, perm, priv) ==
    IF shard \notin DOMAIN fs THEN [fs |-> fs, err |-> "ENOENT"]
    ELSE IF ~Stat(fs, shard, name)
         THEN [fs |-> PutFile(fs, shard, name, [data |-> <<>>, mode |-> perm]),
               err |-> "nil"]
    ELSE IF ~Writable(fs[shard][name].mode) /\ ~priv THEN [fs |-> fs, err |-> "EACCES"]
    ELSE [fs |-> PutFile(fs, shard, name, [fs[shard][name] EXCEPT !.data = <<>>]),
          err |-> "nil"]

(* write(2) of chunk at offset off of an open file: bytes between the end  *)
(* of the file and off read as zero.                                       *)
WriteAt(old, off, chunk) ==
    LET n == IF Len(old) > off + Len(chunk) THEN Len(old) ELSE off + Len(chunk)
    IN  [i \in 1..n |->
            IF i > off /\ i <= off + Len(chunk) THEN chunk[i - off]
            ELSE IF i <= Len(old) THEN old[i] ELSE 0]

(* os.WriteFile run to completion with no other process in between *)
WriteFile(fs, shard, name, data, perm, priv) ==
    LET o == OpenFile(fs, shard, name, perm, priv)
    IN  IF o.err # "nil" THEN o
        ELSE [fs |-> PutFile(o.fs, shard, name,
                        [o.fs[shard][name] EXCEPT !.data = WriteAt(@, 0, data)]),
              err |-> "nil"]

(***************************************************************************)
(* Object store and identifier resolver.                                   *)
(***************************************************************************)
(* Write without the os.Stat that returns early when the object exists *)
WriteNoStat(fs, sha, fullObject, priv) ==
    IF Len(sha) # HashLen THEN [fs |-> fs, err |-> "invalid sha length"]
    ELSE LET shard == Take(sha, ShardLen)
             name == Drop(sha, ShardLen)
             w == WriteFile(MkdirAll(fs, shard), shard, name, compress(fullObject),
                            ObjPerm, priv)
         IN  [fs |-> w.fs, err |-> IF w.err = "nil" THEN "nil" ELSE "writing object file"]

(* Write that makes the shard directory anew, what was in it removed *)
WriteRecreatesShard(fs, sha, fullObject, priv) ==
    IF Len(sha) # HashLen THEN [fs |-> fs, err |-> "invalid sha length"]
    ELSE LET shard == Take(sha, ShardLen)
             name == Drop(sha, ShardLen)
             fs1 == [s \in DOMAIN fs \cup {shard} |-> IF s = shard THEN EmptyDir ELSE fs[s]]
             w == WriteFile(fs1, shard, name, compress(fullObject), ObjPerm, priv)
         IN  [fs |-> w.fs, err |-> IF w.err = "nil" THEN "nil" ELSE "writing object file"]

(* Write joining the shard directory with the whole sha, not with sha[2:] *)
WriteWholeName(fs, sha, fullObject, priv) ==
    IF Len(sha) # HashLen THEN [fs |-> fs, err |-> "invalid sha length"]
    ELSE LET shard == Take(sha, ShardLen)
             fs1 == MkdirAll(fs, shard)
         IN  IF Stat(fs1, shard, sha) THEN [fs |-> fs1, err |-> "nil"]
             ELSE LET w == WriteFile(fs1, shard, sha, compress(fullObject), ObjPerm, priv)
                  IN  [fs |-> w.fs,
                       err |-> IF w.err = "nil" THEN "nil" ELSE "writing object file"]

Write(fs, sha, fullObject, priv) ==
    IF Len(sha) # HashLen THEN [fs |-> fs, err |-> "invalid sha length"]
    ELSE LET shard == Take(sha, ShardLen)
             name == Drop(sha, ShardLen)
             fs1 == MkdirAll(fs, shard)
         IN  IF Stat(fs1, shard, name) THEN [fs |-> fs1, err |-> "nil"]
             ELSE LET w == WriteFile(fs1, shard, name, compress(fullObject), ObjPerm, priv)
                  IN  [fs |-> w.fs,
                       err |-> IF w.err = "nil" THEN "nil" ELSE "writing object file"]

NoPath == [shard |-> <<>>, name |-> <<>>]

(* resolvePath returning the abbreviation it was given as the full hash *)
resolvePathKeepsInput(fs, hash) ==
    LET objDir == Take(hash, ShardLen)
        matches == IF Len(hash) < MinPrefix \/ objDir \notin DOMAIN fs THEN {}
                   ELSE {e \in DOMAIN fs[objDir] : HasPrefix(e, Drop(hash, ShardLen))}
    IN  IF Len(hash) < MinPrefix
        THEN [err |-> "hash prefix too short", path |-> NoPath, fullHash |-> <<>>, n |-> 0]
        ELSE IF matches = {}
        THEN [err |-> "not found", path |-> NoPath, fullHash |-> <<>>, n |-> 0]
        ELSE IF Cardinality(matches) > 1
        THEN [err |-> "ambiguous hash prefix", path |-> NoPath, fullHash |-> <<>>,
              n |-> Cardinality(matches)]
        ELSE [err |-> "nil",
              path |-> [shard |-> objDir, name |-> CHOOSE e \in matches : TRUE],
              fullHash |-> hash, n |-> 1]

(* the entries of the shard directory of hash that start with its rest *)
MatchesOf(fs, hash) ==
    IF Len(hash) < ShardLen \/ Take(hash, ShardLen) \notin DOMAIN fs THEN {}
    ELSE {e \in DOMAIN fs[Take(hash, ShardLen)] : HasPrefix(e, Drop(hash, ShardLen))}

(* resolvePath taking matches[0] whenever there is a match *)
resolvePathPicksFirst(fs, hash) ==
    LET matches == MatchesOf(fs, hash)
    IN  IF Len(hash) < MinPrefix
        THEN [err |-> "hash prefix too short", path |-> NoPath, fullHash |-> <<>>, n |-> 0]
        ELSE IF matches = {}
        THEN [err |-> "not found", path |-> NoPath, fullHash |-> <<>>, n |-> 0]
        ELSE LET m == CHOOSE e \in matches : TRUE
             IN  [err |-> "nil", path |-> [shard |-> Take(hash, ShardLen), name |-> m],
                  fullHash |-> Take(hash, ShardLen) \o m, n |-> 1]

(* resolvePath with the length check off by one: len(hash) < 3 *)
resolvePathShortMinimum(fs, hash) ==
    LET matches == MatchesOf(fs, hash)
    IN  IF Len(hash) < MinPrefix - 1
        THEN [err |-> "hash prefix too short", path |-> NoPath, fullHash |-> <<>>, n |-> 0]
        ELSE IF matches = {}
        THEN [err |-> "not found", path |-> NoPath, fullHash |-> <<>>, n |-> 0]
        ELSE IF Cardinality(matches) > 1
        THEN [err |-> "ambiguous hash prefix", path |-> NoPath, fullHash |-> <<>>,
              n |-> Cardinality(matches)]
        ELSE LET m == CHOOSE e \in matches : TRUE
             IN  [err |-> "nil", path |-> [shard |-> Take(hash, ShardLen), name |-> m],
                  fullHash |-> Take(hash, ShardLen) \o m, n |-> 1]

(* resolvePath comparing the entries with the whole input, hash[:2] included *)
resolvePathWholePrefix(fs, hash) ==
    LET objDir == Take(hash, ShardLen)
        matches == IF Len(hash) < MinPrefix \/ objDir \notin DOMAIN fs THEN {}
                   ELSE {e \in DOMAIN fs[objDir] : HasPrefix(e, hash)}
    IN  IF Len(hash) < MinPrefix
        THEN [err |-> "hash prefix too short", path |-> NoPath, fullHash |-> <<>>, n |-> 0]
        ELSE IF Len(hash) = HashLen /\ Stat(fs, objDir, Drop(hash, ShardLen))
        THEN [err |-> "nil", path |-> [shard |-> objDir, name |-> Drop(hash, ShardLen)],
              fullHash |-> hash, n |-> 1]
        ELSE IF matches = {}
        THEN [err |-> "not found", path |-> NoPath, fullHash |-> <<>>, n |-> 0]
        ELSE IF Cardinality(matches) > 1
        THEN [err |-> "ambiguous hash prefix", path |-> NoPath, fullHash |-> <<>>,
              n |-> Cardinality(matches)]
        ELSE LET m == CHOOSE e \in matches : TRUE
             IN  [err |-> "nil", path |-> [shard |-> objDir, name |-> m],
                  fullHash |-> objDir \o m, n |-> 1]

resolvePath(fs, hash) ==
    IF Len(hash) < MinPrefix
    THEN [err |-> "hash prefix too short", path |-> NoPath, fullHash |-> <<>>, n |-> 0]
    ELSE LET objDir == Take(hash, ShardLen)
         IN  IF Len(hash) = HashLen
             THEN IF ~Stat(fs, objDir, Drop(hash, ShardLen))
                  THEN [err |-> "not found", path |-> NoPath, fullHash |-> <<>>, n |-> 0]
                  ELSE [err |-> "nil",
                        path |-> [shard |-> objDir, name |-> Drop(hash, ShardLen)],
                        fullHash |-> hash, n |-> 1]
             ELSE IF objDir \notin DOMAIN fs
                  THEN [err |-> "not found", path |-> NoPath, fullHash |-> <<>>, n |-> 0]
                  ELSE LET prefix == Drop(hash, ShardLen)
                           matches == {e \in DOMAIN fs[objDir] : HasPrefix(e, prefix)}
                       IN  IF matches = {}
                           THEN [err |-> "not found", path |-> NoPath,
                                 fullHash |-> <<>>, n |-> 0]
                           ELSE IF Cardinality(matches) = 1
                           THEN LET m == CHOOSE e \in matches : TRUE
                                IN  [err |-> "nil",
                                     path |-> [shard |-> objDir, name |-> m],
                                     fullHash |-> objDir \o m, n |-> 1]
                           ELSE [err |-> "ambiguous hash prefix", path |-> NoPath,
                                 fullHash |-> <<>>, n |-> Cardinality(matches)]

NilObject == [Type |-> <<>>, Size |-> 0, Hash |-> <<>>, Body |-> <<>>]

(* the part of Read after os.ReadFile returned compressed *)
Decode(compressed, resolvedHash) ==
    LET d == decompress(compressed)
    IN  IF d.err # "nil" THEN [err |-> d.err, obj |-> NilObject]
        ELSE LET p == parseRaw(d.raw)
             IN  IF p.err # "nil" THEN [err |-> p.err, obj |-> NilObject]
                 ELSE [err |-> "nil",
                       obj |-> [Type |-> p.obj.Type, Size |-> p.obj.Size,
                                Hash |-> resolvedHash, Body |-> p.obj.Body]]

Read(fs, hash) ==
    LET r == resolvePath(fs, hash)
    IN  IF r.err # "nil" THEN [err |-> r.err, obj |-> NilObject]
        ELSE Decode(fs[r.path.shard][r.path.name].data, r.fullHash)

(* Exists that reads and decodes the object as Read does *)
ExistsDecodes(fs, hash) ==
    LET r == resolvePath(fs, hash)
    IN  IF r.err # "nil" THEN r.err
        ELSE Decode(fs[r.path.shard][r.path.name].data, r.fullHash).err

Exists(fs, hash) == resolvePath(fs, hash).err

(***************************************************************************)
(* Inputs of the calls.                                                    *)
(***************************************************************************)
MaxBodyLen == 1
MaxObjects == 2

TypeCommit == <<99, 111, 109, 109, 105, 116>>
TypeTag == <<116, 97, 103>>
Types == {TypeBlob, TypeTree, TypeCommit, TypeTag}
ContentBytes == {0, 97}
Contents == UNION {[1..n -> ContentBytes] : n \in 0..MaxBodyLen}
DeclaredSizes == (0 - 1)..(MaxBodyLen + 1)

(* what a caller gets from Hash with the true length of the content *)
Hashed(T, C) == Hash(T, C, Len(C))

(* an id made up by the caller: the first k characters of sha, then c's *)
Forged(sha, k, c) == Take(sha, k) \o [i \in 1..(HashLen - k) |-> c]

EmptyBlob == Hashed(TypeBlob, <<>>)

(* ids and envelopes as Hash returns them *)
HashedInputs ==
    {[sha |-> Hashed(TypeBlob, C).sha, fullObject |-> Hashed(TypeBlob, C).fullObject] :
        C \in Contents}
    \cup {[sha |-> Hashed(TypeTree, <<97>>).sha,
           fullObject |-> Hashed(TypeTree, <<97>>).fullObject],
          [sha |-> Hashed(TypeCommit, <<>>).sha,
           fullObject |-> Hashed(TypeCommit, <<>>).fullObject],
          [sha |-> Hashed(TypeTag, <<0>>).sha,
           fullObject |-> Hashed(TypeTag, <<0>>).fullObject]}

(* what Write accepts besides: an envelope whose declared size is not the  *)
(* length of its body, an id that is not the digest of the envelope, an    *)
(* envelope with no NUL, an id that is too short, an id of 40 characters   *)
(* that are not hexadecimal digits ('z')                                   *)
OtherInputs ==
    {[sha |-> Hash(TypeBlob, <<>>, 1).sha,
      fullObject |-> Hash(TypeBlob, <<>>, 1).fullObject],
     [sha |-> EmptyBlob.sha, fullObject |-> Hashed(TypeBlob, <<97>>).fullObject],
     [sha |-> Forged(EmptyBlob.sha, 5, 98), fullObject |-> EmptyBlob.fullObject],
     [sha |-> Forged(EmptyBlob.sha, 4, 99), fullObject |-> <<120>>],
     [sha |-> Take(EmptyBlob.sha, HashLen - 1), fullObject |-> EmptyBlob.fullObject],
     [sha |-> Forged(EmptyBlob.sha, 0, 122), fullObject |-> EmptyBlob.fullObject]}

WriteInputs == HashedInputs \cup OtherInputs

WriteIds == {w.sha : w \in {x \in WriteInputs : Len(x.sha) = HashLen}}

(* every id in full, an id that is never written, and the abbreviations    *)
(* of the ids that share their first characters                            *)
HashInputs ==
    WriteIds \cup {Forged(EmptyBlob.sha, 0, 48)}
    \cup {Take(EmptyBlob.sha, 3), Take(EmptyBlob.sha, 4), Take(EmptyBlob.sha, 5),
          Take(EmptyBlob.sha, 6), Take(EmptyBlob.sha, 39),
          Take(Forged(EmptyBlob.sha, 5, 98), 6),
          Take(Forged(EmptyBlob.sha, 4, 99), 5),
          Take(Hashed(TypeBlob, <<97>>).sha, 4), <<>>}

(***************************************************************************)
(* State.                                                                  *)
(***************************************************************************)
VARIABLES
    objects,  \* the shard directories under objects/ and the files in them
    last,     \* the last call that ran alone, with what it returned
    proc,     \* the calls that run concurrently: where each is, its locals
    gitfs     \* the directories and files at and under the repository roots

vars == <<objects, last, proc, gitfs>>

NoCall ==
    [op |-> "none", typ |-> <<>>, size |-> 0, hash |-> <<>>, bytes |-> <<>>,
     existed |-> FALSE, err |-> "nil", n |-> 0, sha |-> <<>>, fullObject |-> <<>>,
     compressed |-> <<>>, raw |-> <<>>, path |-> <<>>, obj |-> NilObject]

StoredIds == UNION {{s \o n : n \in DOMAIN objects[s]} : s \in DOMAIN objects}

FileOf(fs, id) == fs[Take(id, ShardLen)][Drop(id, ShardLen)]

NoObjects == [s \in {} |-> EmptyDir]

(* paths are sequences of components; an absolute path starts with "/" *)
DirEntry == [kind |-> "dir", data |-> ""]
Wd == <<"/", "wd">>
BaseTree == (<<"/">> :> DirEntry) @@ (Wd :> DirEntry)

Idle == [p \in {} |-> NoCall]

Init ==
    /\ objects = NoObjects
    /\ gitfs = BaseTree
    /\ last = NoCall
    /\ proc = Idle

(***************************************************************************)
(* Calls on one storage root, one at a time.                               *)
(***************************************************************************)
WriteCall ==
    \E w \in WriteInputs, priv \in BOOLEAN :
        LET r == Write(objects, w.sha, w.fullObject, priv)
        IN  /\ Cardinality(StoredIds \cup {w.sha}) <= MaxObjects
            /\ objects' = r.fs
            /\ last' = [NoCall EXCEPT !.op = "Write", !.hash = w.sha,
                                      !.bytes = w.fullObject, !.err = r.err,
                                      !.existed = (w.sha \in StoredIds)]
            /\ UNCHANGED <<proc, gitfs>>

ReadCall ==
    \E h \in HashInputs :
        LET r == Read(objects, h)
        IN  /\ last' = [NoCall EXCEPT !.op = "Read", !.hash = h, !.err = r.err,
                                      !.n = resolvePath(objects, h).n,
                                      !.obj = r.obj]
            /\ UNCHANGED <<objects, proc, gitfs>>

ExistsCall ==
    \E h \in HashInputs :
        /\ last' = [NoCall EXCEPT !.op = "Exists", !.hash = h,
                                  !.err = Exists(objects, h),
                                  !.n = resolvePath(objects, h).n]
        /\ UNCHANGED <<objects, proc, gitfs>>

Next == WriteCall \/ ReadCall \/ ExistsCall

Spec == Init /\ [][Next]_vars

(***************************************************************************)
(* The pure functions, applied to inputs drawn at the start: Hash, and     *)
(* parseRaw on the envelope Hash built.                                    *)
(***************************************************************************)
(* envelopes the parser is given that Hash does not build: "x", "",        *)
(* "blob6" NUL, "blob 6 x" NUL "ab", "blob +1" NUL "a", "blob " NUL,        *)
(* " 1" NUL "a", "blob 1" NUL "a" NUL "b", "blob  1" NUL "a"                *)
RawInputs ==
    {<<120>>, <<>>,
     TypeBlob \o <<54, NUL>>,
     TypeBlob \o <<SP, 54, SP, 120, NUL, 97, 98>>,
     TypeBlob \o <<SP, PLUS, 49, NUL, 97>>,
     TypeBlob \o <<SP, NUL>>,
     <<SP, 49, NUL, 97>>,
     TypeBlob \o <<SP, 49, NUL, 97, NUL, 98>>,
     TypeBlob \o <<SP, SP, 49, NUL, 97>>}

PureInit ==
    /\ objects = NoObjects
    /\ gitfs = BaseTree
    /\ proc = Idle
    /\ last \in {[NoCall EXCEPT !.op = "input", !.typ = T, !.size = n, !.bytes = C] :
                    T \in Types, C \in Contents, n \in DeclaredSizes}
                \cup {[NoCall EXCEPT !.op = "raw", !.fullObject = r] : r \in RawInputs}

HashCall ==
    /\ last.op = "input"
    /\ LET h == Hash(last.typ, last.bytes, last.size)
       IN  last' = [last EXCEPT !.op = "Hash", !.err = h.err, !.sha = h.sha,
                                !.fullObject = h.fullObject]
    /\ UNCHANGED <<objects, proc, gitfs>>

ParseCall ==
    /\ last.op \in {"Hash", "raw"} /\ last.err = "nil"
    /\ LET p == parseRaw(last.fullObject)
       IN  last' = [last EXCEPT !.op = "parseRaw", !.err = p.err,
                                !.obj = [Type |-> p.obj.Type, Size |-> p.obj.Size,
                                         Hash |-> <<>>, Body |-> p.obj.Body]]
    /\ UNCHANGED <<objects, proc, gitfs>>

(* compress on the envelope Hash built, or on the bytes drawn *)
CompressCall ==
    /\ last.op \in {"Hash", "raw"} /\ last.err = "nil"
    /\ last' = [last EXCEPT !.op = "compress", !.compressed = compress(last.fullObject)]
    /\ UNCHANGED <<objects, proc, gitfs>>

(* decompress on what compress returned *)
DecompressCall ==
    /\ last.op = "compress"
    /\ LET d == decompress(last.compressed)
       IN  last' = [last EXCEPT !.op = "decompress", !.err = d.err, !.raw = d.raw]
    /\ UNCHANGED <<objects, proc, gitfs>>

PureNext == HashCall \/ ParseCall \/ CompressCall \/ DecompressCall

PureSpec == PureInit /\ [][PureNext]_vars

(***************************************************************************)
(* A stored object file that is cut short behind the program's back: one   *)
(* Write, then the loss of the last k bytes of the file, then Read.        *)
(***************************************************************************)
StoreOne ==
    /\ last.op = "none"
    /\ \E w \in HashedInputs :
          LET r == Write(objects, w.sha, w.fullObject, FALSE)
          IN  /\ objects' = r.fs
              /\ last' = [NoCall EXCEPT !.op = "Write", !.hash = w.sha,
                                        !.bytes = w.fullObject, !.err = r.err]
    /\ UNCHANGED <<proc, gitfs>>

Truncate ==
    /\ last.op = "Write" /\ last.err = "nil"
    /\ \E k \in 1..Len(FileOf(objects, last.hash).data) :
          objects' = PutFile(objects, Take(last.hash, ShardLen), Drop(last.hash, ShardLen),
                        [FileOf(objects, last.hash) EXCEPT !.data = Take(@, Len(@) - k)])
    /\ last' = [last EXCEPT !.op = "truncate"]
    /\ UNCHANGED <<proc, gitfs>>

ReadStored ==
    /\ last.op \in {"Write", "truncate"}
    /\ LET r == Read(objects, last.hash)
       IN  last' = [last EXCEPT !.op = "Read", !.err = r.err, !.obj = r.obj]
    /\ UNCHANGED <<objects, proc, gitfs>>

TruncNext == StoreOne \/ Truncate \/ ReadStored

TruncSpec == Init /\ [][TruncNext]_vars

(***************************************************************************)
(* Repository initialisation: Init of package repository (part_001) and    *)
(* Init of repository.go, each a whole call on the tree gitfs.  A system   *)
(* call of a call may fail with an I/O error: failAt numbers it, 0 is none.*)
(***************************************************************************)
FileEntry(data) == [kind |-> "file", data |-> data]

Prefixes(p) == {Take(p, k) : k \in 1..Len(p)}

IsDir(fs, p) == p \in DOMAIN fs /\ fs[p].kind = "dir"

(* os.MkdirAll(p, 0755) *)
OsMkdirAll(fs, p) ==
    IF \E q \in Prefixes(p) : q \in DOMAIN fs /\ fs[q].kind # "dir"
    THEN [fs |-> fs, err |-> "ENOTDIR"]
    ELSE [fs |-> fs @@ [q \in Prefixes(p) \ DOMAIN fs |-> DirEntry], err |-> "nil"]

(* os.Mkdir(p, 0755) *)
OsMkdir(fs, p) ==
    IF p \in DOMAIN fs THEN [fs |-> fs, err |-> "EEXIST"]
    ELSE IF Take(p, Len(p) - 1) \notin DOMAIN fs THEN [fs |-> fs, err |-> "ENOENT"]
    ELSE IF ~IsDir(fs, Take(p, Len(p) - 1)) THEN [fs |-> fs, err |-> "ENOTDIR"]
    ELSE [fs |-> fs @@ (p :> DirEntry), err |-> "nil"]

(* os.WriteFile(p, data, 0644), and os.Create(p) followed by Write(data) *)
OsWriteFile(fs, p, data) ==
    IF Take(p, Len(p) - 1) \notin DOMAIN fs THEN [fs |-> fs, err |-> "ENOENT"]
    ELSE IF ~IsDir(fs, Take(p, Len(p) - 1)) THEN [fs |-> fs, err |-> "ENOTDIR"]
    ELSE IF IsDir(fs, p) THEN [fs |-> fs, err |-> "EISDIR"]
    ELSE [fs |-> (p :> FileEntry(data)) @@ fs, err |-> "nil"]

IsAbs(path) == Len(path) > 0 /\ path[1] = "/"

(* the empty path is <<>>, "." is <<".">> *)
resolveRepoRoot(path) ==
    IF path = <<>> \/ path = <<".">> THEN Wd
    ELSE IF IsAbs(path) THEN path
    ELSE Wd \o path

(* exists that takes only a directory for an entry, as Open does *)
existsDirOnly(fs, path) == path \in DOMAIN fs /\ fs[path].kind = "dir"

(* exists, and RepoExists of repository.go: os.Stat returns no error *)
exists(fs, path) == path \in DOMAIN fs

RepoExists(fs, path) == path \in DOMAIN fs

HeadContent == "ref: refs/heads/main\n"
DescriptionContent ==
    "Unnamed repository; edit this file 'description' to name the repository.\n"
ConfigContent ==
    "[core]\nrepositoryformatversion = 0\nfilemode = true\nbare = false\nlogallrefupdates = true\nignorecase = true\nprecomposeunicode = true"

InitialFiles ==
    ("HEAD" :> HeadContent) @@ ("description" :> DescriptionContent)
        @@ ("config" :> ConfigContent)

(* createDirStructure: dirs, in order, under gitDir *)
PkgDirs ==
    << <<>>, <<"objects">>, <<"objects", "info">>, <<"objects", "pack">>,
       <<"refs">>, <<"refs", "heads">>, <<"refs", "tags">>, <<"hooks">> >>

(* the orders in which range may go over the map files *)
FileOrders ==
    {o \in [1..Cardinality(DOMAIN InitialFiles) -> DOMAIN InitialFiles] :
        \A i, j \in DOMAIN o : o[i] = o[j] => i = j}

RECURSIVE createDirStructure(_, _, _, _)
createDirStructure(fs, gitDir, i, failAt) ==
    IF i > Len(PkgDirs) THEN [fs |-> fs, err |-> "nil"]
    ELSE IF failAt = i THEN [fs |-> fs, err |-> "creating directory"]
    ELSE LET r == OsMkdirAll(fs, gitDir \o PkgDirs[i])
         IN  IF r.err # "nil" THEN [fs |-> fs, err |-> "creating directory"]
             ELSE createDirStructure(r.fs, gitDir, i + 1, failAt)

RECURSIVE createInitialFiles(_, _, _, _, _)
createInitialFiles(fs, gitDir, order, i, failAt) ==
    IF i > Len(order) THEN [fs |-> fs, err |-> "nil"]
    ELSE IF failAt = Len(PkgDirs) + i THEN [fs |-> fs, err |-> "creating file"]
    ELSE LET r == OsWriteFile(fs, gitDir \o <<order[i]>>, InitialFiles[order[i]])
         IN  IF r.err # "nil" THEN [fs |-> fs, err |-> "creating file"]
             ELSE createInitialFiles(r.fs, gitDir, order, i + 1, failAt)

(* Init of part_001 *)
PkgInit(fs, path, order, failAt) ==
    LET gitDir == resolveRepoRoot(path) \o <<".git">>
    IN  IF exists(fs, gitDir) THEN [fs |-> fs, err |-> "repository already exists"]
        ELSE LET d == createDirStructure(fs, gitDir, 1, failAt)
             IN  IF d.err # "nil" THEN d
                 ELSE createInitialFiles(d.fs, gitDir, order, 1, failAt)

(* Init of repository.go: os.Mkdir of .git, then of dirs in order, then    *)
(* CreateHeadFile, CreateConfigFile, CreateDescriptionFile                 *)
RepoDirs ==
    << <<>>, <<"objects">>, <<"refs">>, <<"objects", "info">>, <<"objects", "pack">>,
       <<"hooks">>, <<"refs", "heads">>, <<"refs", "tags">> >>

RepoFiles == <<"HEAD", "config", "description">>

RECURSIVE RepoMkdirs(_, _, _, _)
RepoMkdirs(fs, repoRootPath, i, failAt) ==
    IF i > Len(RepoDirs) THEN [fs |-> fs, err |-> "nil"]
    ELSE IF failAt = i THEN [fs |-> fs, err |-> "EIO"]
    ELSE LET r == OsMkdir(fs, repoRootPath \o RepoDirs[i])
         IN  IF r.err # "nil" THEN r
             ELSE RepoMkdirs(r.fs, repoRootPath, i + 1, failAt)

RECURSIVE RepoCreateFiles(_, _, _, _)
RepoCreateFiles(fs, repoRootPath, i, failAt) ==
    IF i > Len(RepoFiles) THEN [fs |-> fs, err |-> "nil"]
    ELSE IF failAt = Len(RepoDirs) + i THEN [fs |-> fs, err |-> "EIO"]
    ELSE LET r == OsWriteFile(fs, repoRootPath \o <<RepoFiles[i]>>,
                              InitialFiles[RepoFiles[i]])
         IN  IF r.err # "nil" THEN r
             ELSE RepoCreateFiles(r.fs, repoRootPath, i + 1, failAt)

RepoInit(fs, path, failAt) ==
    LET repoRootPath == resolveRepoRoot(path) \o <<".git">>
    IN  IF RepoExists(fs, repoRootPath)
        THEN [fs |-> fs, err |-> "Repository already exists"]
        ELSE LET d == RepoMkdirs(fs, repoRootPath, 1, failAt)
             IN  IF d.err # "nil" THEN d
                 ELSE RepoCreateFiles(d.fs, repoRootPath, 1, failAt)

(* the path arguments: "", ".", a relative and an absolute path *)
InitPaths == {<<>>, <<".">>, <<"sub">>, <<"/", "abs">>}

(* no failure, the first system call, the last directory, the second file *)
FailPoints == {0, 1, Len(PkgDirs), Len(PkgDirs) + 2}

(* the order of the files is seen only when a write of a file fails *)
OrdersAt(failAt) ==
    IF failAt > Len(PkgDirs) THEN FileOrders
    ELSE {[i \in 1..Len(RepoFiles) |-> RepoFiles[i]]}

(* what is at a root before the first call: nothing, the directory, the   *)
(* directory with a file .git, the directory with a directory .git         *)
RootKinds == {"absent", "empty", "gitfile", "gitdir"}

RootTree(root, kind) ==
    IF kind = "absent" THEN [q \in {} |-> DirEntry]
    ELSE IF kind = "empty" THEN (root :> DirEntry)
    ELSE IF kind = "gitfile"
    THEN (root :> DirEntry) @@ (root \o <<".git">> :> FileEntry("gitdir: elsewhere\n"))
    ELSE (root :> DirEntry) @@ (root \o <<".git">> :> DirEntry)

RepoInitInit ==
    /\ objects = NoObjects
    /\ last = NoCall
    /\ proc = Idle
    /\ \E kw \in RootKinds \ {"absent"}, ks \in RootKinds, ka \in RootKinds :
          gitfs = RootTree(Wd, kw) @@ RootTree(Wd \o <<"sub">>, ks)
                    @@ RootTree(<<"/", "abs">>, ka) @@ BaseTree

PkgInitCall ==
    /\ \E path \in InitPaths, failAt \in FailPoints :
        \E order \in OrdersAt(failAt) :
          LET r == PkgInit(gitfs, path, order, failAt)
          IN  /\ gitfs' = r.fs
              /\ last' = [NoCall EXCEPT !.op = "Init", !.path = path, !.err = r.err]
    /\ UNCHANGED <<objects, proc>>

RepoInitCall ==
    /\ \E path \in InitPaths, failAt \in FailPoints :
          LET r == RepoInit(gitfs, path, failAt)
          IN  /\ gitfs' = r.fs
              /\ last' = [NoCall EXCEPT !.op = "RepoInit", !.path = path, !.err = r.err]
    /\ UNCHANGED <<objects, proc>>

RepoNext == PkgInitCall \/ RepoInitCall

RepoSpec == RepoInitInit /\ [][RepoNext]_vars

(***************************************************************************)
(* Calls that overlap: two Write calls of one id and one Read or Exists,   *)
(* each a process that takes the system calls of its code one at a time.   *)
(***************************************************************************)
ChunkSize == 10

Writers == {"w1", "w2"}
Readers == {"r1"}

NoProc ==
    [pc |-> "start", op |-> "none", hash |-> <<>>, bytes |-> <<>>, priv |-> FALSE,
     off |-> 0, created |-> FALSE, opened |-> FALSE, err |-> "nil",
     obj |-> NilObject, path |-> NoPath]

ConcWriteInputs ==
    {[sha |-> EmptyBlob.sha, fullObject |-> EmptyBlob.fullObject],
     [sha |-> EmptyBlob.sha, fullObject |-> Hashed(TypeBlob, <<97>>).fullObject]}

ConcHashInputs == {EmptyBlob.sha, Take(EmptyBlob.sha, MinPrefix)}

ConcInit ==
    /\ objects = NoObjects
    /\ gitfs = BaseTree
    /\ last = NoCall
    /\ \E w \in ConcWriteInputs, priv \in BOOLEAN, op \in {"Read", "Exists"},
          h \in ConcHashInputs :
          proc = [p \in Writers \cup Readers |->
                    IF p = "w1"
                    THEN [NoProc EXCEPT !.op = "Write", !.hash = EmptyBlob.sha,
                                        !.bytes = EmptyBlob.fullObject, !.priv = priv]
                    ELSE IF p = "w2"
                    THEN [NoProc EXCEPT !.op = "Write", !.hash = w.sha,
                                        !.bytes = w.fullObject, !.priv = priv]
                    ELSE [NoProc EXCEPT !.op = op, !.hash = h]]

ShardOf(p) == Take(proc[p].hash, ShardLen)
NameOf(p) == Drop(proc[p].hash, ShardLen)

(* Write, lines 117-124: the length check and os.MkdirAll *)
WriteMkdir(p) ==
    /\ proc[p].pc = "start"
    /\ IF Len(proc[p].hash) # HashLen
       THEN /\ proc' = [proc EXCEPT ![p].pc = "done", ![p].err = "invalid sha length"]
            /\ UNCHANGED objects
       ELSE /\ objects' = MkdirAll(objects, ShardOf(p))
            /\ proc' = [proc EXCEPT ![p].pc = "stat"]
    /\ UNCHANGED <<last, gitfs>>

(* Write, lines 129-131: os.Stat of the object path *)
WriteStat(p) ==
    /\ proc[p].pc = "stat"
    /\ proc' = IF Stat(objects, ShardOf(p), NameOf(p))
               THEN [proc EXCEPT ![p].pc = "done", ![p].err = "nil"]
               ELSE [proc EXCEPT ![p].pc = "open"]
    /\ UNCHANGED <<objects, last, gitfs>>

(* Write, lines 133-138: compress, then the open of os.WriteFile *)
WriteOpen(p) ==
    /\ proc[p].pc = "open"
    /\ LET o == OpenFile(objects, ShardOf(p), NameOf(p), ObjPerm, proc[p].priv)
       IN  IF o.err # "nil"
           THEN /\ proc' = [proc EXCEPT ![p].pc = "done",
                                        ![p].err = "writing object file"]
                /\ UNCHANGED objects
           ELSE /\ objects' = o.fs
                /\ proc' = [proc EXCEPT ![p].pc = "write", ![p].off = 0,
                                        ![p].opened = TRUE,
                                        ![p].created =
                                            ~Stat(objects, ShardOf(p), NameOf(p))]
    /\ UNCHANGED <<last, gitfs>>

(* Write, line 138: one write(2) of os.WriteFile, of at most ChunkSize     *)
(* bytes at the offset of this writer's descriptor; the call returns nil   *)
(* after the last one                                                      *)
WriteChunk(p) ==
    /\ proc[p].pc = "write"
    /\ LET data == compress(proc[p].bytes)
           off == proc[p].off
           end == IF off + ChunkSize < Len(data) THEN off + ChunkSize ELSE Len(data)
           file == objects[ShardOf(p)][NameOf(p)]
       IN  /\ objects' = PutFile(objects, ShardOf(p), NameOf(p),
                            [file EXCEPT !.data = WriteAt(@, off, SubSeq(data, off + 1, end))])
           /\ proc' = IF end = Len(data)
                      THEN [proc EXCEPT ![p].pc = "done", ![p].off = end, ![p].err = "nil"]
                      ELSE [proc EXCEPT ![p].off = end]
    /\ UNCHANGED <<last, gitfs>>

(* Write, lines 138-140: a write(2) of os.WriteFile fails (no space, I/O   *)
(* error) and the call returns the error, the file left as it is           *)
WriteFails(p) ==
    /\ proc[p].pc = "write"
    /\ proc' = [proc EXCEPT ![p].pc = "done", ![p].err = "writing object file"]
    /\ UNCHANGED <<objects, last, gitfs>>

(* Read line 149, Exists line 179: resolvePath; Exists returns its error   *)
Resolve(p) ==
    /\ proc[p].pc = "start"
    /\ LET r == resolvePath(objects, proc[p].hash)
       IN  proc' = IF r.err # "nil"
                   THEN [proc EXCEPT ![p].pc = "done", ![p].err = r.err]
                   ELSE [proc EXCEPT ![p].pc = IF proc[p].op = "Exists" THEN "done"
                                               ELSE "readfile",
                                     ![p].path = r.path,
                                     ![p].bytes = objects[r.path.shard][r.path.name].data,
                                     ![p].obj = [NilObject EXCEPT !.Hash = r.fullHash]]
    /\ UNCHANGED <<objects, last, gitfs>>

(* Read, lines 154-174: os.ReadFile, then decompress and parseRaw *)
ReadFile(p) ==
    /\ proc[p].pc = "readfile"
    /\ LET compressed == objects[proc[p].path.shard][proc[p].path.name].data
           d == Decode(compressed, proc[p].obj.Hash)
       IN  proc' = [proc EXCEPT ![p].pc = "done", ![p].bytes = compressed,
                                ![p].err = d.err,
                                ![p].obj = IF d.err = "nil" THEN d.obj ELSE NilObject]
    /\ UNCHANGED <<objects, last, gitfs>>

ConcNext ==
    \/ \E p \in Writers : WriteMkdir(p)
    \/ \E p \in Writers : WriteStat(p)
    \/ \E p \in Writers : WriteOpen(p)
    \/ \E p \in Writers : WriteChunk(p)
    \/ \E p \in Writers : WriteFails(p)
    \/ \E p \in Readers : Resolve(p)
    \/ \E p \in Readers : ReadFile(p)

ConcSpec == ConcInit /\ [][ConcNext]_vars

(***************************************************************************)
(* Properties of Hash.                                                     *)
(***************************************************************************)

(* C8: Hash fails, returning no id and no envelope, whenever the declared  *)
(* size is not the number of bytes read.                                   *)
C8_HashRejectsWrongSize ==
    (last.op = "Hash" /\ last.size # Len(last.bytes))
        => (last.err # "nil" /\ last.sha = <<>> /\ last.fullObject = <<>>)

(***************************************************************************)
(* Properties of calls that overlap.                                       *)
(***************************************************************************)
(* the complete files of the writers *)
CompleteFiles == {compress(proc[w].bytes) : w \in Writers}

(* C2: while Write calls of one id overlap, the file at the id's path is   *)
(* never partially written, and when all writers have finished it holds    *)
(* the complete bytes of one of them.                                      *)
C2_SameIdWritersAtomic ==
    /\ \A w \in Writers :
          Stat(objects, ShardOf(w), NameOf(w))
              => objects[ShardOf(w)][NameOf(w)].data \in CompleteFiles
    /\ (\A w \in Writers : proc[w].pc = "done")
          => \A w \in Writers :
                /\ Stat(objects, ShardOf(w), NameOf(w))
                /\ objects[ShardOf(w)][NameOf(w)].data \in CompleteFiles

(* C3: a Read or Exists that overlaps a Write of the same id finds no      *)
(* object, or finds the complete file: Read returns what a complete        *)
(* envelope decodes to, Exists returns nil on a complete file.             *)
C3_ReaderSeesNothingOrAll ==
    \A r \in Readers :
        proc[r].pc = "done"
            => \/ proc[r].err = "not found"
               \/ /\ proc[r].err = "nil"
                  /\ proc[r].bytes \in CompleteFiles
                  /\ proc[r].op = "Read"
                        => proc[r].obj = Decode(proc[r].bytes, proc[r].obj.Hash).obj

(* C4: a Write call during which a file exists at the id's path that the   *)
(* call did not create itself returns nil and neither truncates nor writes *)
(* that file.                                                              *)
C4_ExistingFileIsLeftAlone ==
    \A w \in Writers :
        (/\ proc[w].pc = "done"
         /\ Stat(objects, ShardOf(w), NameOf(w))
         /\ ~proc[w].created)
        => (proc[w].err = "nil" /\ ~proc[w].opened)

(***************************************************************************)
(* Properties of calls that run one at a time.                             *)
(***************************************************************************)

(* C1: over any sequence of Write, Read and Exists calls, an object file   *)
(* that exists under an id keeps its bytes and is never removed.           *)
C1_StoredObjectsNeverChange ==
    [][\A id \in StoredIds :
          /\ id \in StoredIds'
          /\ FileOf(objects', id).data = FileOf(objects, id).data]_vars

(* a Write of another envelope under a stored id has returned, and the     *)
(* file still holds the first envelope                                     *)
C1_Witness ==
    /\ last.op = "Write" /\ last.existed
    /\ FileOf(objects, last.hash).data # compress(last.bytes)
    /\ decompress(FileOf(objects, last.hash).data).err = "nil"

(* C5: a Write of an id that is already stored, with the same or another   *)
(* envelope, returns nil and changes nothing; after a successful Write the *)
(* same Write again returns nil and leaves the store as it is.             *)
C5_WriteIdempotent ==
    [][/\ (last'.op = "Write" /\ last'.hash \in StoredIds)
            => (last'.err = "nil" /\ objects' = objects)
       /\ (last'.op = "Write" /\ last'.err = "nil")
            => \A priv \in BOOLEAN :
                  Write(objects', last'.hash, last'.bytes, priv)
                      = [fs |-> objects', err |-> "nil"]]_vars

(* the same id and envelope have been written a second time *)
C5_Witness ==
    /\ last.op = "Write" /\ last.existed /\ last.err = "nil"
    /\ FileOf(objects, last.hash).data = compress(last.bytes)

(* every type and content of the inputs with what Hash derives from them *)
HashedTable ==
    {[typ |-> T, body |-> C, sha |-> Hashed(T, C).sha,
      fullObject |-> Hashed(T, C).fullObject] : T \in Types, C \in Contents}

(* C7: Write(id, envelope) with (id, envelope) = Hash(T, C, len(C)) on a   *)
(* store where id is absent, followed by Read(id), returns Type = T,       *)
(* Size = len(C), Body = C and Hash = id.                                  *)
C7_WriteReadRoundTrip ==
    [][\A h \in HashedTable :
          (/\ last.op = "Write" /\ ~last.existed /\ last.err = "nil"
           /\ last.hash = h.sha /\ last.bytes = h.fullObject
           /\ last'.op = "Read" /\ last'.hash = h.sha)
          => (/\ last'.err = "nil"
              /\ last'.obj = [Type |-> h.typ, Size |-> Len(h.body),
                              Hash |-> h.sha, Body |-> h.body])]_vars

(* a Read has returned the blob whose content is one NUL byte *)
C7_Witness ==
    /\ last.op = "Read" /\ last.err = "nil"
    /\ last.hash = Hashed(TypeBlob, <<0>>).sha
    /\ last.obj = [Type |-> TypeBlob, Size |-> 1,
                   Hash |-> Hashed(TypeBlob, <<0>>).sha, Body |-> <<0>>]

(* C6: the Hash of every Object that Read returns is the digest of the    *)
(* envelope "<Type> <Size>\0" + Body of that Object.                       *)
C6_ReadHashIsDigest ==
    (last.op = "Read" /\ last.err = "nil")
        => last.obj.Hash = HashBytes(Header(last.obj.Type, last.obj.Size) \o last.obj.Body)

(* C9: Read returns no Object whose Size is not the length of its Body.    *)
C9_ReadSizeIsBodyLength ==
    (last.op = "Read" /\ last.err = "nil") => last.obj.Size = Len(last.obj.Body)

(* the stored ids that start with h *)
Matching(h) == {id \in StoredIds : HasPrefix(id, h)}

(* C10: an input of 4 to 40 characters that is a prefix of exactly one     *)
(* stored id resolves to that object: Exists returns nil, and Read returns *)
(* what the file of that id decodes to, with Hash the full id; Read fails  *)
(* only when the envelope stored in that file does not parse.              *)
C10_UniquePrefixResolves ==
    (/\ last.op \in {"Read", "Exists"}
     /\ Len(last.hash) >= MinPrefix /\ Len(last.hash) <= HashLen
     /\ Cardinality(Matching(last.hash)) = 1)
    => LET id == CHOOSE x \in Matching(last.hash) : TRUE
           d == decompress(FileOf(objects, id).data)
       IN  /\ last.op = "Exists" => last.err = "nil"
           /\ last.op = "Read" =>
                /\ d.err = "nil"
                /\ last.err = parseRaw(d.raw).err
                /\ last.err = "nil" =>
                     /\ last.obj.Hash = id
                     /\ last.obj.Type = parseRaw(d.raw).obj.Type
                     /\ last.obj.Size = parseRaw(d.raw).obj.Size
                     /\ last.obj.Body = parseRaw(d.raw).obj.Body

(* a Read by an abbreviation has returned one of two stored objects whose  *)
(* ids share their first four characters                                   *)
C10_Witness ==
    /\ last.op = "Read" /\ last.err = "nil"
    /\ Len(last.hash) >= MinPrefix /\ Len(last.hash) < HashLen
    /\ last.obj.Hash \in StoredIds
    /\ \E other \in StoredIds :
          /\ other # last.obj.Hash
          /\ Take(other, MinPrefix) = Take(last.obj.Hash, MinPrefix)

(***************************************************************************)
(* Properties of the identifier resolver.                                  *)
(***************************************************************************)

(* C11: an abbreviation of 4 to 39 characters that is a prefix of k >= 2   *)
(* stored ids makes Read and Exists fail with the ambiguous error, which   *)
(* names exactly k; no object is returned.                                 *)
C11_AmbiguousPrefixRejected ==
    (/\ last.op \in {"Read", "Exists"}
     /\ Len(last.hash) >= MinPrefix /\ Len(last.hash) < HashLen
     /\ Cardinality(Matching(last.hash)) >= 2)
    => (/\ last.err = "ambiguous hash prefix"
        /\ last.n = Cardinality(Matching(last.hash))
        /\ last.obj = NilObject)

(* a Read by four characters that two stored ids share has failed *)
C11_Witness ==
    /\ last.op = "Read" /\ last.err = "ambiguous hash prefix" /\ last.n = 2
    /\ Len(last.hash) = MinPrefix
    /\ Cardinality(Matching(last.hash)) = 2

(* C12: Read and Exists reject every input shorter than 4 characters with  *)
(* the too-short error, whatever is stored, also when a stored id starts   *)
(* with the input.                                                         *)
C12_ShortPrefixRejected ==
    (last.op \in {"Read", "Exists"} /\ Len(last.hash) < MinPrefix)
        => (last.err = "hash prefix too short" /\ last.obj = NilObject /\ last.n = 0)

(* an input of three characters that a stored id starts with was rejected *)
C12_Witness ==
    /\ last.op = "Exists" /\ last.err = "hash prefix too short"
    /\ Len(last.hash) = MinPrefix - 1
    /\ Matching(last.hash) # {}

(* C13: for an input of 4 characters or more, Read and Exists return not   *)
(* found exactly when no stored id starts with the input.                  *)
C13_NotFoundIffNoMatch ==
    (last.op \in {"Read", "Exists"} /\ Len(last.hash) >= MinPrefix)
        => (last.err = "not found" <=> Matching(last.hash) = {})

(* an abbreviation was not found in a shard directory that exists and      *)
(* holds other objects                                                     *)
C13_Witness ==
    /\ last.op = "Read" /\ last.err = "not found"
    /\ Len(last.hash) >= MinPrefix /\ Len(last.hash) < HashLen
    /\ Take(last.hash, ShardLen) \in DOMAIN objects

(* C14: Exists returns nil if and only if the input resolves to exactly    *)
(* one stored object file, whether or not that file decodes; so it returns *)
(* nil for a written id, an error for an id never written, and nil         *)
(* wherever Read returns nil.                                              *)
C14_ExistsIffResolves ==
    /\ last.op = "Exists"
         => (last.err = "nil"
               <=> (/\ Len(last.hash) >= MinPrefix
                    /\ Cardinality(Matching(last.hash)) = 1))
    /\ (last.op = "Write" /\ last.err = "nil") => Exists(objects, last.hash) = "nil"
    /\ \A h \in HashInputs : Read(objects, h).err = "nil" => Exists(objects, h) = "nil"
    /\ \A id \in WriteIds \ StoredIds : Exists(objects, id) # "nil"

(* Exists has returned nil for a stored file that Read cannot parse *)
C14_Witness ==
    /\ last.op = "Exists" /\ last.err = "nil"
    /\ Read(objects, last.hash).err = "malformed object: no null byte in header"

(***************************************************************************)
(* Properties of the hasher and of the envelope parser.                    *)
(***************************************************************************)
(* e is T, one space, n in plain decimal, one NUL, then C *)
CanonicalEnvelope(e, T, n, C) ==
    LET k == IndexByte(e, NUL)
        sizeText == SubSeq(e, Len(T) + 2, k - 1)
    IN  /\ k > Len(T) + 2
        /\ Take(e, Len(T)) = T
        /\ e[Len(T) + 1] = SP
        /\ sizeText[1] # PLUS
        /\ (sizeText[1] = ZERO => Len(sizeText) = 1)
        /\ ParseInt(sizeText).ok
        /\ ParseInt(sizeText).val = n
        /\ Drop(e, k) = C

(* C15: Hash(T, C, n) returns the envelope "T n" NUL C and the id that is  *)
(* the digest of that envelope, so equal envelopes have equal ids, and     *)
(* githash.Hash returns the same id and envelope.                          *)
C15_HashBuildsCanonicalEnvelope ==
    last.op = "Hash"
        => (/\ last.err = "nil"
            /\ CanonicalEnvelope(last.fullObject, last.typ, last.size, last.bytes)
            /\ last.sha = HashBytes(last.fullObject)
            /\ Len(last.sha) = HashLen
            /\ \A T \in Types, C \in Contents, n \in DeclaredSizes :
                  Hash(T, C, n).fullObject = last.fullObject
                      => Hash(T, C, n).sha = last.sha
            /\ GitHash(last.typ, last.bytes, last.size)
                   = [sha |-> last.sha, fullObject |-> last.fullObject,
                      err |-> last.err])

(* Hash has returned "blob 0" NUL "a": a size that is not the length *)
C15_Witness ==
    /\ last.op = "Hash" /\ last.typ = TypeBlob /\ last.bytes = <<97>> /\ last.size = 0
    /\ last.fullObject = TypeBlob \o <<SP, ZERO, NUL, 97>>

(* C16: the parser fails for want of a NUL exactly when its input has no   *)
(* NUL byte, and the body it returns is every byte after the first NUL,    *)
(* later NUL bytes included.                                               *)
C16_SplitsAtFirstNul ==
    last.op = "parseRaw"
        => (/\ (last.err = "malformed object: no null byte in header")
                   <=> (CountByte(last.fullObject, NUL) = 0)
            /\ last.err = "nil"
                   => \E k \in 1..Len(last.fullObject) :
                         /\ last.fullObject[k] = NUL
                         /\ \A j \in 1..(k - 1) : last.fullObject[j] # NUL
                         /\ last.obj.Body
                                = SubSeq(last.fullObject, k + 1, Len(last.fullObject)))

(* an envelope with a NUL in its body has been parsed *)
C16_Witness ==
    /\ last.op = "parseRaw" /\ last.err = "nil"
    /\ CountByte(last.fullObject, NUL) >= 2
    /\ CountByte(last.obj.Body, NUL) >= 1

(* the header of an envelope that has a NUL *)
HeaderOf(raw) == Take(raw, IndexByte(raw, NUL) - 1)

(* the text after the first space of a header that has a space *)
SizeTextOf(raw) == Drop(HeaderOf(raw), IndexByte(HeaderOf(raw), SP))

(* C17, as stated: every header that is not exactly two space-separated    *)
(* fields, with no space or with three or more fields, fails with the      *)
(* malformed-header error.                                                 *)
C17_NotTwoFieldsIsMalformedHeader ==
    (/\ last.op = "parseRaw"
     /\ CountByte(last.fullObject, NUL) > 0
     /\ CountByte(HeaderOf(last.fullObject), SP) # 1)
        => last.err = "malformed object header"

(* C17, amended: the parser fails with the malformed-header error exactly  *)
(* when the header has no space; a header of three or more fields fails    *)
(* with the size error, its text after the first space being no number;    *)
(* parseHeaderFromReader fails in the same cases.                          *)
C17_HeaderSplitAtFirstSpace ==
    (last.op = "parseRaw" /\ CountByte(last.fullObject, NUL) > 0)
        => (/\ (last.err = "malformed object header")
                   <=> (CountByte(HeaderOf(last.fullObject), SP) = 0)
            /\ CountByte(HeaderOf(last.fullObject), SP) >= 2
                   => last.err = "parsing object size"
            /\ parseHeaderFromReader(last.fullObject).err = last.err)

(* the header "blob 6 x" has been rejected with the size error *)
C17_Witness ==
    /\ last.op = "parseRaw" /\ last.err = "parsing object size"
    /\ HeaderOf(last.fullObject) = TypeBlob \o <<SP, 54, SP, 120>>

(* C18: the parser accepts a size text only when it is a non-negative      *)
(* decimal integer: any other text fails with the size error, and no       *)
(* Object is returned with Size < 0.                                       *)
C18_SizeIsNonNegativeDecimal ==
    (/\ last.op = "parseRaw"
     /\ CountByte(last.fullObject, NUL) > 0
     /\ CountByte(HeaderOf(last.fullObject), SP) > 0)
        => (/\ ~ParseUint(SizeTextOf(last.fullObject)).ok
                   => last.err = "parsing object size"
            /\ last.err = "nil" => last.obj.Size >= 0)

(***************************************************************************)
(* Properties of Write.                                                    *)
(***************************************************************************)
IsHexChar(b) == IsDigit(b) \/ (b >= 97 /\ b <= 102) \/ (b >= 65 /\ b <= 70)

ValidHexId(h) == Len(h) = HashLen /\ \A i \in 1..Len(h) : IsHexChar(h[i])

(* C19: Write with an id that is not 40 hexadecimal characters, of the     *)
(* wrong length or with another character in it, fails with the invalid-id *)
(* error and creates no directory and no file.                             *)
C19_WriteRejectsInvalidId ==
    [][(last'.op = "Write" /\ ~ValidHexId(last'.hash))
          => (last'.err = "invalid sha length" /\ objects' = objects)]_vars

(* C20: a successful Write of an id that is not stored creates one file,   *)
(* at <id[0:2]>/<id[2:]>, creating the shard directory if it is missing;   *)
(* the file holds the compressed envelope, and every other stored file is  *)
(* left as it was.                                                         *)
C20_WriteCreatesOneFile ==
    [][(last'.op = "Write" /\ last'.err = "nil" /\ ~last'.existed)
          => LET id == last'.hash
                 shard == Take(id, ShardLen)
                 name == Drop(id, ShardLen)
             IN  /\ id \notin StoredIds
                 /\ StoredIds' = StoredIds \cup {id}
                 /\ DOMAIN objects' = DOMAIN objects \cup {shard}
                 /\ \A s \in DOMAIN objects :
                       /\ DOMAIN objects'[s]
                              = DOMAIN objects[s] \cup (IF s = shard THEN {name} ELSE {})
                       /\ \A f \in DOMAIN objects[s] : objects'[s][f] = objects[s][f]
                 /\ shard \notin DOMAIN objects => DOMAIN objects'[shard] = {name}
                 /\ objects'[shard][name].mode = ObjPerm
                 /\ objects'[shard][name].data # last'.bytes
                 /\ decompress(objects'[shard][name].data)
                        = [err |-> "nil", raw |-> last'.bytes]]_vars

(* a second object has been written into a shard directory that existed *)
C20_Witness ==
    /\ last.op = "Write" /\ last.err = "nil" /\ ~last.existed
    /\ Cardinality(StoredIds) = 2
    /\ Cardinality(DOMAIN objects) = 1
    /\ FileOf(objects, last.hash).data = compress(last.bytes)

(***************************************************************************)
(* Properties of the stored files.                                         *)
(***************************************************************************)
(* C21: an object file that Write created is read-only once its content is *)
(* complete, so no later open for writing, of a later or of a racing Write *)
(* of the same id, alters its bytes: the open fails.                       *)
C21_CompleteFileIsReadOnly ==
    [][\A w \in Writers :
          (/\ Stat(objects, ShardOf(w), NameOf(w))
           /\ objects[ShardOf(w)][NameOf(w)].data \in CompleteFiles)
          => (/\ ~Writable(objects[ShardOf(w)][NameOf(w)].mode)
              /\ Stat(objects', ShardOf(w), NameOf(w))
              /\ objects'[ShardOf(w)][NameOf(w)].data
                     = objects[ShardOf(w)][NameOf(w)].data
              /\ \A v \in Writers :
                    (proc[v].pc = "open" /\ proc'[v].pc # "open")
                        => proc'[v].err = "writing object file")]_vars

(***************************************************************************)
(* Properties of the codec.                                                *)
(***************************************************************************)
(* C22: decompress(compress(x)) = x for every byte sequence x, the empty   *)
(* one included, and compress returns its bytes without an error.          *)
C22_CodecRoundTrip ==
    /\ last.op = "compress"
          => (last.err = "nil" /\ decompress(last.compressed).err = "nil")
    /\ last.op = "decompress"
          => (last.err = "nil" /\ last.raw = last.fullObject)

(* the errors of zlib.NewReader and of io.ReadAll on the zlib reader *)
CorruptStream ==
    {"unexpected EOF", "zlib: invalid header", "flate: corrupt input",
     "zlib: invalid checksum"}

(* C23: Read of a stored object whose file has lost its last byte or more  *)
(* fails with a decompression error and returns no Object; Read of the     *)
(* whole file returns the object.                                          *)
C23_TruncatedFileIsCorrupt ==
    last.op = "Read"
        => IF Len(FileOf(objects, last.hash).data) < Len(compress(last.bytes))
           THEN last.err \in CorruptStream /\ last.obj = NilObject
           ELSE last.err = "nil" /\ last.obj.Hash = last.hash

(* Read has failed on a file that lost its last byte only *)
C23_Witness ==
    /\ last.op = "Read" /\ last.err = "unexpected EOF"
    /\ Len(FileOf(objects, last.hash).data) = Len(compress(last.bytes)) - 1
    /\ last.obj = NilObject

(* the empty sequence has gone through compress and decompress *)
C22_Witness ==
    /\ last.op = "decompress" /\ last.err = "nil"
    /\ last.fullObject = <<>> /\ last.raw = <<>>
    /\ Len(last.compressed) > 0

(***************************************************************************)
(* Properties of repository initialisation.                                *)
(***************************************************************************)
(* the .git directory of a path argument *)
GitDirOf(path) == resolveRepoRoot(path) \o <<".git">>

(* what an initialised .git holds *)
Initialised(fs, gitDir) ==
    /\ \A d \in {<<"objects", "info">>, <<"objects", "pack">>, <<"hooks">>,
                 <<"refs", "heads">>, <<"refs", "tags">>} : IsDir(fs, gitDir \o d)
    /\ gitDir \o <<"HEAD">> \in DOMAIN fs
    /\ fs[gitDir \o <<"HEAD">>] = FileEntry("ref: refs/heads/main\n")
    /\ \A f \in {"description", "config"} :
          gitDir \o <<f>> \in DOMAIN fs /\ fs[gitDir \o <<f>>].kind = "file"

AlreadyExists == {"repository already exists", "Repository already exists"}

(* C24: Init returns nil only when nothing was at .git, and then the       *)
(* directories and the files HEAD, description and config are there; with  *)
(* an entry at .git, and so on every Init after a successful one on the    *)
(* same path, it returns the already-exists error and changes nothing.     *)
C24_InitOnlyOnce ==
    [][last'.op \in {"Init", "RepoInit"}
          => (/\ last'.err = "nil"
                    => (/\ GitDirOf(last'.path) \notin DOMAIN gitfs
                        /\ Initialised(gitfs', GitDirOf(last'.path))
                        /\ \A failAt \in FailPoints :
                              /\ PkgInit(gitfs', last'.path, RepoFiles, failAt).fs = gitfs'
                              /\ PkgInit(gitfs', last'.path, RepoFiles, failAt).err
                                     \in AlreadyExists
                              /\ RepoInit(gitfs', last'.path, failAt).fs = gitfs'
                              /\ RepoInit(gitfs', last'.path, failAt).err
                                     \in AlreadyExists)
              /\ GitDirOf(last'.path) \in DOMAIN gitfs
                    => (last'.err \in AlreadyExists /\ gitfs' = gitfs))]_vars

(* Init has been refused on a repository that an earlier Init set up *)
C24_Witness ==
    /\ last.op \in {"Init", "RepoInit"} /\ last.err \in AlreadyExists
    /\ last.path = <<"sub">>
    /\ Initialised(gitfs, GitDirOf(last.path))

(***************************************************************************)
(* Properties of a Write that has returned.                                *)
(***************************************************************************)
(* C25: once a Write call has returned nil, also through its already-      *)
(* exists path while another writer of the id is writing or has failed     *)
(* midway, a Read of the id succeeds and returns the type, size and body   *)
(* of a written envelope.                                                  *)
C25_ReturnedWriteIsReadable ==
    \A w \in Writers :
        (proc[w].pc = "done" /\ proc[w].err = "nil")
            => (/\ Read(objects, proc[w].hash).err = "nil"
                /\ Read(objects, proc[w].hash).obj
                       \in {Decode(compress(proc[v].bytes), proc[w].hash).obj :
                               v \in Writers})

====
